---- MODULE Spec2Model ----
(***************************************************************************)
(* Subscription lifecycle of the loyalty platform: the database functions  *)
(* handle_subscription_webhook, cancel_subscription_gracefully and         *)
(* reactivate_subscription with the billing-period trigger, and the        *)
(* SubscriptionService client that calls them and resolves access.         *)
(*                                                                         *)
(* Time is counted in ticks, TicksPerDay ticks to a day, from 1970-01-01   *)
(* 00:00 UTC.  An optional value is a sequence of length at most one:      *)
(* NULL is the empty sequence, <<v>> a present value.                      *)
(***************************************************************************)
EXTENDS Integers, Sequences, FiniteSets, TLC

VARIABLES store, now, proc, last, ops

vars == <<store, now, proc, last, ops>>

----------------------------------------------------------------------------
(* Bounds of the model *)

\* number of service calls a behaviour makes after its first state
MaxOps == 2

\* number of times the clock advances
MaxClock == 2

\* resolution of the clock
TicksPerDay == 2

----------------------------------------------------------------------------
(* Domains *)

Users == {"u1", "u2", "u3"}

\* the database sessions that run calls concurrently
Procs == {"s1", "s2"}

Plans == {"trial", "monthly", "semiannual", "annual"}

Statuses == {"active", "expired", "cancelled", "past_due"}

NULL == <<>>

Some(v) == <<v>>

IsNull(o) == o = <<>>

\* COALESCE(a, b) of SQL on optional values
Coalesce(a, b) == IF a # <<>> THEN a ELSE b

\* x || null of the client: an absent or empty string becomes null
OrNull(o) == IF o = <<>> \/ o = <<"">> THEN <<>> ELSE o

----------------------------------------------------------------------------
(* Calendar: proleptic Gregorian dates of day numbers, in UTC *)

IsLeap(y) == (y % 4 = 0 /\ y % 100 # 0) \/ y % 400 = 0

DaysInMonth(y, m) ==
  IF m = 2 THEN (IF IsLeap(y) THEN 29 ELSE 28)
  ELSE IF m \in {4, 6, 9, 11} THEN 30 ELSE 31

\* The calendar operators pass each intermediate value on as a parameter.

\* day of the 400-year era, from the year of the era and the day of the year
\* counted from March 1
DoeOf(yoe, doy) == yoe * 365 + yoe \div 4 - yoe \div 100 + doy

\* day number of day d of the month mp (0 = March) of the year yy that
\* begins on March 1
DaysFromShifted(yy, mp, d) ==
  (yy \div 400) * 146097 + DoeOf(yy % 400, (153 * mp + 2) \div 5 + d - 1) - 719468

\* day number of the civil date y-m-d; d may lie outside the month
DaysFromCivil(y, m, d) ==
  DaysFromShifted(IF m <= 2 THEN y - 1 ELSE y, IF m > 2 THEN m - 3 ELSE m + 9, d)

CivilFromMp(y0, mp, doy) ==
  << y0 + (IF mp >= 10 THEN 1 ELSE 0),
     IF mp < 10 THEN mp + 3 ELSE mp - 9,
     doy - (153 * mp + 2) \div 5 + 1 >>

CivilFromDoy(y0, doy) == CivilFromMp(y0, (5 * doy + 2) \div 153, doy)

CivilFromYoe(era, doe, yoe) ==
  CivilFromDoy(yoe + era * 400, doe - (365 * yoe + yoe \div 4 - yoe \div 100))

CivilFromDoe(era, doe) ==
  CivilFromYoe(era, doe,
               (doe - doe \div 1460 + doe \div 36524 - doe \div 146096) \div 365)

CivilFromShifted(zz) == CivilFromDoe(zz \div 146097, zz % 146097)

\* civil date <<y, m, d>> of a day number
CivilFromDays(z) == CivilFromShifted(z + 719468)

DayOf(t) == t \div TicksPerDay

TickOfDay(t) == t % TicksPerDay

Days(n) == n * TicksPerDay

\* day number of y-m-d with d clamped to the last day of the month
ClampedDate(y, m, d) ==
  DaysFromCivil(y, m, IF d > DaysInMonth(y, m) THEN DaysInMonth(y, m) ELSE d)

\* day number of y-m-d where m counts months from January = 0 and may run
\* past December; clamp tells whether the day of month is clamped
MonthsOn(y, m0, d, clamp) ==
  IF clamp THEN ClampedDate(y + (m0 \div 12), (m0 % 12) + 1, d)
           ELSE DaysFromCivil(y + (m0 \div 12), (m0 % 12) + 1, 1) + d - 1

\* timestamptz + interval 'n months': the month advances, the day of month
\* is clamped to the last day of the target month, the time of day is kept
AddMonthsCivil(c, n, tickOfDay) ==
  Days(MonthsOn(c[1], c[2] - 1 + n, c[3], TRUE)) + tickOfDay

AddMonthsSql(t, n) == AddMonthsCivil(CivilFromDays(DayOf(t)), n, TickOfDay(t))

\* Date.setMonth(getMonth() + n): the month advances and a day of month past
\* the end of the target month overflows into the next month
SetMonthCivil(c, n, tickOfDay) ==
  Days(MonthsOn(c[1], c[2] - 1 + n, c[3], FALSE)) + tickOfDay

SetMonthJs(t, n) == SetMonthCivil(CivilFromDays(DayOf(t)), n, TickOfDay(t))

\* Date.setFullYear(getFullYear() + n): Feb 29 overflows to Mar 1
SetFullYearJs(t, n) == SetMonthJs(t, 12 * n)

----------------------------------------------------------------------------
(* The subscriptions table and its trigger *)

\* integer division that truncates toward zero, as EXTRACT(days FROM interval)
TruncDiv(a, b) == IF a >= 0 THEN a \div b ELSE -((-a) \div b)

\* to_char(ts, 'Mon DD, YYYY'): month, day of month and year of the instant
MonDDYYYY(c) == [mon |-> c[2], dd |-> c[3], yyyy |-> c[1]]

ToCharMonDDYYYY(t) == MonDDYYYY(CivilFromDays(DayOf(t)))

\* the text of a period of v_duration_days days: both dates and the suffix
PeriodText(from, to, v_duration_days) ==
  IF v_duration_days >= 350
    THEN [from |-> from, to |-> to, n |-> 1, unit |-> "year"]
  ELSE IF v_duration_days >= 150
    THEN [from |-> from, to |-> to, n |-> 6, unit |-> "months"]
  ELSE IF v_duration_days >= 25
    THEN [from |-> from, to |-> to, n |-> 1, unit |-> "month"]
  ELSE [from |-> from, to |-> to, n |-> v_duration_days, unit |-> "days"]

\* a classification that does not count a trial as a one-month plan
PeriodAccurateNoTrial(plan_type, v_duration_days) ==
  IF v_duration_days >= 350 THEN plan_type = "annual"
  ELSE IF v_duration_days >= 150 THEN plan_type = "semiannual"
  ELSE IF v_duration_days >= 25 THEN plan_type = "monthly"
  ELSE FALSE

\* a classification that accepts only the nominal day counts 365, 182 and 30
PeriodAccurateNominal(plan_type, v_duration_days) ==
  IF v_duration_days = 365 THEN plan_type = "annual"
  ELSE IF v_duration_days = 182 THEN plan_type = "semiannual"
  ELSE IF v_duration_days = 30 THEN plan_type \in {"monthly", "trial"}
  ELSE FALSE

\* whether a period of v_duration_days days is the plan's nominal period
PeriodAccurate(plan_type, v_duration_days) ==
  IF v_duration_days >= 350 THEN plan_type = "annual"
  ELSE IF v_duration_days >= 150 THEN plan_type = "semiannual"
  ELSE IF v_duration_days >= 25 THEN plan_type \in {"monthly", "trial"}
  ELSE FALSE

\* v_duration_days := EXTRACT(days FROM (current_period_end - current_period_start))
DurationDays(current_period_start, current_period_end) ==
  TruncDiv(current_period_end - current_period_start, TicksPerDay)

Annotated(new, v_duration_days) ==
  [new EXCEPT
     !.billing_period_text =
        Some(PeriodText(ToCharMonDDYYYY(new.current_period_start),
                        ToCharMonDDYYYY(new.current_period_end), v_duration_days)),
     !.billing_period_accurate = Some(PeriodAccurate(new.plan_type, v_duration_days))]

\* body of the BEFORE INSERT OR UPDATE trigger: NEW with the period text and
\* the accuracy flag derived from its period bounds and plan
update_billing_period_text(new) ==
  Annotated(new, DurationDays(new.current_period_start, new.current_period_end))

\* a table without a unique index on user_id: no INSERT is refused
NoUniqueIndex(rows) == FALSE

\* the unique index on subscriptions.user_id: an INSERT for a user that
\* already has a row raises unique_violation
UniqueViolation(rows) == rows # <<>>

----------------------------------------------------------------------------
(* Database functions.  A call c carries the function's arguments and the   *)
(* transaction's now(): [op, user, plan, status, sub, cus, pstart, pend, at] *)

\* v_period_start := COALESCE(p_period_start, now())
WebhookPeriodStart(c) == IF IsNull(c.pstart) THEN c.at ELSE c.pstart[1]

\* a period end that is the start plus 31 days whatever the plan
calculate_flat(plan_type, start_date) == start_date + Days(31)

\* the period end of a plan from a start: calculate_subscription_period_end,
\* and the CASE of handle_subscription_webhook
calculate_subscription_period_end(plan_type, start_date) ==
  CASE plan_type = "trial"      -> start_date + Days(30)
    [] plan_type = "monthly"    -> AddMonthsSql(start_date, 1)
    [] plan_type = "semiannual" -> AddMonthsSql(start_date, 6)
    [] plan_type = "annual"     -> AddMonthsSql(start_date, 12)
    [] OTHER                    -> start_date + Days(30)

\* a period end always computed from the plan and now()
WebhookPeriodEndFromNow(c) == calculate_subscription_period_end(c.plan, c.at)

\* v_period_end: computed from the plan when p_period_end IS NULL
WebhookPeriodEnd(c) ==
  IF IsNull(c.pend)
    THEN calculate_subscription_period_end(c.plan, WebhookPeriodStart(c))
    ELSE c.pend[1]

\* an UPDATE that overwrites both ids with the event's, null or not
WebhookUpdateOverwriting(row, c) ==
  update_billing_period_text(
    [row EXCEPT !.plan_type = c.plan,
                !.status = c.status,
                !.stripe_subscription_id = c.sub,
                !.stripe_customer_id = c.cus,
                !.current_period_start = WebhookPeriodStart(c),
                !.current_period_end = WebhookPeriodEnd(c),
                !.updated_at = c.at])

\* an UPDATE on which the trigger does not fire
WebhookUpdateWithoutTrigger(row, c) ==
  [row EXCEPT !.plan_type = c.plan,
              !.status = c.status,
              !.stripe_subscription_id = Coalesce(c.sub, row.stripe_subscription_id),
              !.stripe_customer_id = Coalesce(c.cus, row.stripe_customer_id),
              !.current_period_start = WebhookPeriodStart(c),
              !.current_period_end = WebhookPeriodEnd(c),
              !.updated_at = c.at]

\* an UPDATE that keeps the stored period end when the event supplies none
WebhookUpdateKeepingEnd(row, c) ==
  update_billing_period_text(
    [row EXCEPT !.plan_type = c.plan,
                !.status = c.status,
                !.stripe_subscription_id = Coalesce(c.sub, row.stripe_subscription_id),
                !.stripe_customer_id = Coalesce(c.cus, row.stripe_customer_id),
                !.current_period_start = WebhookPeriodStart(c),
                !.current_period_end =
                   IF IsNull(c.pend) THEN row.current_period_end ELSE c.pend[1],
                !.updated_at = c.at])

\* an UPDATE that leaves a cancelled row cancelled
WebhookUpdateKeepingCancelled(row, c) ==
  update_billing_period_text(
    [row EXCEPT !.plan_type = c.plan,
                !.status = IF row.status = "cancelled" THEN row.status ELSE c.status,
                !.stripe_subscription_id = Coalesce(c.sub, row.stripe_subscription_id),
                !.stripe_customer_id = Coalesce(c.cus, row.stripe_customer_id),
                !.current_period_start = WebhookPeriodStart(c),
                !.current_period_end = WebhookPeriodEnd(c),
                !.updated_at = c.at])

\* the UPDATE branch of handle_subscription_webhook on one row
WebhookUpdate(row, c) ==
  update_billing_period_text(
    [row EXCEPT !.plan_type = c.plan,
                !.status = c.status,
                !.stripe_subscription_id = Coalesce(c.sub, row.stripe_subscription_id),
                !.stripe_customer_id = Coalesce(c.cus, row.stripe_customer_id),
                !.current_period_start = WebhookPeriodStart(c),
                !.current_period_end = WebhookPeriodEnd(c),
                !.updated_at = c.at])

\* the INSERT branch of handle_subscription_webhook
WebhookInsert(c) ==
  update_billing_period_text(
    [user_id |-> c.user,
     plan_type |-> c.plan,
     status |-> c.status,
     stripe_subscription_id |-> c.sub,
     stripe_customer_id |-> c.cus,
     current_period_start |-> WebhookPeriodStart(c),
     current_period_end |-> WebhookPeriodEnd(c),
     billing_period_text |-> NULL,
     billing_period_accurate |-> NULL,
     updated_at |-> c.at])

\* INSERT INTO subscriptions: the row is added unless the unique index
\* refuses it, and then the statement raises and leaves the rows as they were
InsertRow(rows, row) ==
  IF UniqueViolation(rows)
    THEN [raised |-> TRUE, rows |-> rows]
    ELSE [raised |-> FALSE, rows |-> Append(rows, row)]

\* the write of handle_subscription_webhook on the rows of the user, given
\* the FOUND of its earlier SELECT: whether it raised, and the rows afterwards
WebhookWrite(rows, c, found) ==
  IF found
    THEN [raised |-> FALSE, rows |-> [i \in DOMAIN rows |-> WebhookUpdate(rows[i], c)]]
    ELSE InsertRow(rows, WebhookInsert(c))

\* a cancellation that stores a cancelled trial row for a user without one
cancel_creating(rows, c) ==
  IF rows = <<>>
    THEN <<WebhookInsert([c EXCEPT !.status = "cancelled"])>>
    ELSE [i \in DOMAIN rows |->
            update_billing_period_text(
              [rows[i] EXCEPT !.status = "cancelled", !.updated_at = c.at])]

\* a cancellation that ends the period at once
cancel_truncating(rows, c) ==
  [i \in DOMAIN rows |->
     update_billing_period_text(
       [rows[i] EXCEPT !.status = "cancelled", !.current_period_end = c.at,
                       !.updated_at = c.at])]

\* UPDATE subscriptions SET status = 'cancelled', updated_at = now()
cancel_subscription_gracefully(rows, c) ==
  [i \in DOMAIN rows |->
     update_billing_period_text(
       [rows[i] EXCEPT !.status = "cancelled", !.updated_at = c.at])]

\* a reactivation that removes the rows whose period has ended
reactivate_purging(rows, c) ==
  LET Current(r) == r.current_period_end > c.at
  IN  [i \in DOMAIN SelectSeq(rows, Current) |->
         update_billing_period_text(
           [SelectSeq(rows, Current)[i] EXCEPT !.status = "active", !.updated_at = c.at])]

\* a reactivation that starts a new period of the plan
reactivate_restarting(rows, c) ==
  [i \in DOMAIN rows |->
     update_billing_period_text(
       [rows[i] EXCEPT !.status = "active", !.current_period_start = c.at,
                       !.current_period_end =
                          calculate_subscription_period_end(rows[i].plan_type, c.at),
                       !.updated_at = c.at])]

\* UPDATE subscriptions SET status = 'active', updated_at = now()
reactivate_subscription(rows, c) ==
  [i \in DOMAIN rows |->
     update_billing_period_text(
       [rows[i] EXCEPT !.status = "active", !.updated_at = c.at])]

\* a database function run alone, as one transaction, on the user's rows
RunAlone(rows, c) ==
  CASE c.op \in {"apply", "create"} -> WebhookWrite(rows, c, rows # <<>>).rows
    [] c.op = "cancel"              -> cancel_subscription_gracefully(rows, c)
    [] c.op = "reactivate"          -> reactivate_subscription(rows, c)
    [] OTHER                        -> rows

----------------------------------------------------------------------------
(* SubscriptionService: the client *)

getTrialFeatures ==
  [maxCustomers |-> 100, maxBranches |-> 1, advancedAnalytics |-> FALSE,
   prioritySupport |-> FALSE, customBranding |-> FALSE, apiAccess |-> FALSE]

getPlanFeatures(planType) ==
  CASE planType = "trial" -> getTrialFeatures
    [] planType = "monthly" ->
         [maxCustomers |-> -1, maxBranches |-> -1, advancedAnalytics |-> TRUE,
          prioritySupport |-> TRUE, customBranding |-> FALSE, apiAccess |-> FALSE]
    [] planType \in {"semiannual", "annual"} ->
         [maxCustomers |-> -1, maxBranches |-> -1, advancedAnalytics |-> TRUE,
          prioritySupport |-> TRUE, customBranding |-> TRUE, apiAccess |-> TRUE]
    [] OTHER -> getTrialFeatures

\* select * where user_id = userId order by created_at desc limit 1: the row
\* inserted last, NULL when there is none; a failed query is logged and
\* answered with null
getUserSubscription(rows, queryFails) ==
  IF queryFails \/ rows = <<>> THEN NULL ELSE Some(rows[Len(rows)])

\* Math.ceil(a / b) for b > 0
CeilDiv(a, b) == -((-a) \div b)

Max(a, b) == IF a >= b THEN a ELSE b

\* access that lasts through the instant of the period end
HasAccessAtEnd(sub, t) ==
  IF sub.status \in {"active", "cancelled", "past_due"}
    THEN sub.current_period_end >= t
    ELSE FALSE

\* access decided by the period alone, whatever the status
HasAccessByPeriod(sub, t) == sub.current_period_end > t

\* hasAccess of a stored subscription at client time t
HasAccess(sub, t) ==
  IF sub.status = "active" THEN sub.current_period_end > t
  ELSE IF sub.status = "cancelled" THEN sub.current_period_end > t
  ELSE IF sub.status = "past_due" THEN sub.current_period_end > t
  ELSE FALSE

\* an answer that counts only the whole days that remain
AccessOfWholeDays(subscription, t) ==
  IF IsNull(subscription)
    THEN [hasAccess |-> TRUE, subscription |-> NULL,
          features |-> getTrialFeatures, daysRemaining |-> 30]
    ELSE [hasAccess |-> HasAccess(subscription[1], t),
          subscription |-> subscription,
          features |-> getPlanFeatures(subscription[1].plan_type),
          daysRemaining |->
            Max(0, TruncDiv(subscription[1].current_period_end - t, TicksPerDay))]

\* an answer that denies access to a subscriber without a row
AccessDeniedWithoutRow(subscription, t) ==
  IF IsNull(subscription)
    THEN [hasAccess |-> FALSE, subscription |-> NULL,
          features |-> getTrialFeatures, daysRemaining |-> 0]
    ELSE [hasAccess |-> HasAccess(subscription[1], t),
          subscription |-> subscription,
          features |-> getPlanFeatures(subscription[1].plan_type),
          daysRemaining |->
            Max(0, CeilDiv(subscription[1].current_period_end - t, TicksPerDay))]

\* an answer that counts the day of the period end as a remaining day
AccessOfInclusiveDays(subscription, t) ==
  IF IsNull(subscription)
    THEN [hasAccess |-> TRUE, subscription |-> NULL,
          features |-> getTrialFeatures, daysRemaining |-> 30]
    ELSE [hasAccess |-> HasAccess(subscription[1], t),
          subscription |-> subscription,
          features |-> getPlanFeatures(subscription[1].plan_type),
          daysRemaining |->
            Max(0, CeilDiv(subscription[1].current_period_end - t, TicksPerDay) + 1)]

\* an answer whose implicit trial runs out on 2024-02-14
AccessOfDatedTrial(subscription, t) ==
  IF IsNull(subscription)
    THEN [hasAccess |-> t < Days(DaysFromCivil(2024, 2, 14)), subscription |-> NULL,
          features |-> getTrialFeatures,
          daysRemaining |-> Max(0, CeilDiv(Days(DaysFromCivil(2024, 2, 14)) - t, TicksPerDay))]
    ELSE [hasAccess |-> HasAccess(subscription[1], t),
          subscription |-> subscription,
          features |-> getPlanFeatures(subscription[1].plan_type),
          daysRemaining |->
            Max(0, CeilDiv(subscription[1].current_period_end - t, TicksPerDay))]

\* the answer of checkSubscriptionAccess given what getUserSubscription returned
AccessOf(subscription, t) ==
  IF IsNull(subscription)
    THEN [hasAccess |-> TRUE, subscription |-> NULL,
          features |-> getTrialFeatures, daysRemaining |-> 30]
    ELSE [hasAccess |-> HasAccess(subscription[1], t),
          subscription |-> subscription,
          features |-> getPlanFeatures(subscription[1].plan_type),
          daysRemaining |->
            Max(0, CeilDiv(subscription[1].current_period_end - t, TicksPerDay))]

\* a resolver that denies access when the read fails
checkSubscriptionAccessClosed(rows, queryFails, t) ==
  IF queryFails
    THEN [hasAccess |-> FALSE, subscription |-> NULL,
          features |-> getTrialFeatures, daysRemaining |-> 0]
    ELSE AccessOf(getUserSubscription(rows, FALSE), t)

\* checkSubscriptionAccess at client time t, on the user's rows
checkSubscriptionAccess(rows, queryFails, t) ==
  AccessOf(getUserSubscription(rows, queryFails), t)

\* the period end createSubscription computes on the client from its clock
CreatePeriodEnd(planType, t) ==
  CASE planType = "trial"      -> t + Days(30)
    [] planType = "monthly"    -> SetMonthJs(t, 1)
    [] planType = "semiannual" -> SetMonthJs(t, 6)
    [] planType = "annual"     -> SetFullYearJs(t, 1)
    [] OTHER                   -> t + Days(30)

----------------------------------------------------------------------------
(* Amounts.  getSubscriptionStats adds prices as IEEE 754 doubles.  A double *)
(* near a decimal amount is written as the amount in cents and its          *)
(* distance from it in units of a hundredth of 2^-51; doubles in [2, 4) are *)
(* 2^-51 apart.                                                             *)

\* 2^n modulo m
RECURSIVE PowerOfTwoMod(_, _)
PowerOfTwoMod(n, m) == IF n = 0 THEN 1 % m ELSE (2 * PowerOfTwoMod(n - 1, m)) % m

Double(cents, err) == [cents |-> cents, err |-> err]

\* the spacing of the doubles around a positive amount, in multiples of 2^-51
UlpOf(cents) ==
  IF cents < 400 THEN 1
  ELSE IF cents < 800 THEN 2
  ELSE IF cents < 1600 THEN 4
  ELSE IF cents < 3200 THEN 8
  ELSE IF cents < 6400 THEN 16
  ELSE 32

\* how far the exact value cents/100 + err units lies above a double with an
\* even significand, modulo two spacings
Residue(cents, err, ulp) ==
  ((cents % (200 * ulp)) * PowerOfTwoMod(51, 200 * ulp) + err + 20000 * ulp)
    % (200 * ulp)

\* the distance after rounding to the nearest double, ties to even
RoundErr(err, r, ulp) ==
  IF r % (100 * ulp) < 50 * ulp THEN err - (r % (100 * ulp))
  ELSE IF r % (100 * ulp) > 50 * ulp THEN err + (100 * ulp - (r % (100 * ulp)))
  ELSE IF r = 50 * ulp THEN err - 50 * ulp
  ELSE err + 50 * ulp

Rounded(cents, err, ulp) ==
  Double(cents, RoundErr(err, Residue(cents, err, ulp), ulp))

\* the double a decimal literal denotes
ToDouble(cents) ==
  IF cents = 0 THEN Double(0, 0) ELSE Rounded(cents, 0, UlpOf(cents))

\* x + y of two doubles
AddDouble(x, y) ==
  IF x.cents = 0 THEN y
  ELSE IF y.cents = 0 THEN x
  ELSE Rounded(x.cents + y.cents, x.err + y.err, UlpOf(x.cents + y.cents))

\* a quotient, kept exact
Ratio(num, den) == [num |-> num, den |-> den]

----------------------------------------------------------------------------
(* SubscriptionService: statistics *)

\* select plan_type, status, created_at from subscriptions: the rows of all
\* users, in the order the database returns them
RECURSIVE AllRows(_, _)
AllRows(rowsOf, order) ==
  IF order = <<>> THEN <<>>
  ELSE rowsOf[Head(order)] \o AllRows(rowsOf, Tail(order))

\* whether the forEach of getSubscriptionStats counts sub
CountsAsRevenue(sub) ==
  sub.plan_type # "trial" /\ sub.status \in {"active", "expired", "cancelled"}

\* totalRevenue after sub: the switch on the plan
AddPrice(totalRevenue, sub) ==
  CASE sub.plan_type = "monthly"    -> AddDouble(totalRevenue, ToDouble(299))
    [] sub.plan_type = "semiannual" -> AddDouble(totalRevenue, ToDouble(999))
    [] sub.plan_type = "annual"     -> AddDouble(totalRevenue, ToDouble(1999))
    [] OTHER                        -> totalRevenue

\* totalRevenue after the forEach over subscriptions
RECURSIVE TotalRevenue(_)
TotalRevenue(subscriptions) ==
  IF subscriptions = <<>> THEN ToDouble(0)
  ELSE IF CountsAsRevenue(subscriptions[Len(subscriptions)])
    THEN AddPrice(TotalRevenue(SubSeq(subscriptions, 1, Len(subscriptions) - 1)),
                  subscriptions[Len(subscriptions)])
    ELSE TotalRevenue(SubSeq(subscriptions, 1, Len(subscriptions) - 1))

\* subscriptions.filter(...).length
CountActive(subscriptions) ==
  Cardinality({i \in DOMAIN subscriptions : subscriptions[i].status = "active"})

CountTrial(subscriptions) ==
  Cardinality({i \in DOMAIN subscriptions : subscriptions[i].plan_type = "trial"})

\* a count of paid rows that takes every row of a plan other than trial
CountPaidOfAnyStatus(subscriptions) ==
  Cardinality({i \in DOMAIN subscriptions : subscriptions[i].plan_type # "trial"})

CountPaid(subscriptions) ==
  Cardinality({i \in DOMAIN subscriptions :
                 subscriptions[i].plan_type # "trial" /\ subscriptions[i].status = "active"})

CountCancelled(subscriptions) ==
  Cardinality({i \in DOMAIN subscriptions : subscriptions[i].status = "cancelled"})

\* the quotient without the test of total
ChurnRateUnguarded(cancelled, total) == Ratio(cancelled * 100, total)

\* total > 0 ? (cancelled / total) * 100 : 0
ChurnRate(cancelled, total) ==
  IF total > 0 THEN Ratio(cancelled * 100, total) ELSE Ratio(0, 1)

\* what getSubscriptionStats returns when the query fails
ZeroStats ==
  [total |-> 0, active |-> 0, trial |-> 0, paid |-> 0,
   revenue |-> ToDouble(0), churnRate |-> Ratio(0, 1)]

\* getSubscriptionStats on the rows the query returns
getSubscriptionStats(subscriptions, queryFails) ==
  IF queryFails THEN ZeroStats
  ELSE [total |-> Len(subscriptions),
        active |-> CountActive(subscriptions),
        trial |-> CountTrial(subscriptions),
        paid |-> CountPaid(subscriptions),
        revenue |-> TotalRevenue(subscriptions),
        churnRate |-> ChurnRate(CountCancelled(subscriptions), Len(subscriptions))]

\* the numeric price the CASE of get_total_subscription_revenue adds, in cents
NumericPrice(plan_type) ==
  CASE plan_type = "monthly"    -> 299
    [] plan_type = "semiannual" -> 999
    [] plan_type = "annual"     -> 1999

\* get_total_subscription_revenue(): v_total_revenue after the loop over the
\* rows that are not trial and are active, expired or cancelled; numeric
\* arithmetic is exact, the value is in cents
RECURSIVE get_total_subscription_revenue(_)
get_total_subscription_revenue(rows) ==
  IF rows = <<>> THEN 0
  ELSE IF Head(rows).plan_type # "trial"
          /\ Head(rows).status \in {"active", "expired", "cancelled"}
    THEN NumericPrice(Head(rows).plan_type) + get_total_subscription_revenue(Tail(rows))
    ELSE get_total_subscription_revenue(Tail(rows))

\* totalRevenue of getSystemWideStats: the number the client reads from the
\* rpc's answer, or 0 when the rpc fails
SystemWideRevenue(rows, rpcFails) ==
  IF rpcFails THEN ToDouble(0) ELSE ToDouble(get_total_subscription_revenue(rows))

----------------------------------------------------------------------------
(* Inputs *)

\* 2024-01-31 00:00, the first instant of the clock
T0 == Days(DaysFromCivil(2024, 1, 31))

\* the clock advances by fourteen and a half days
ClockStep == (29 * TicksPerDay) \div 2

\* the optional arguments of an event, <<stripeSubscriptionId,
\* stripeCustomerId, periodStart, periodEnd>>: a status-only event, a full
\* event with the period 2024-01-31 to 2024-02-29, and two partial events that
\* omit one id and one period bound each
EventOptions ==
  { <<NULL, NULL, NULL, NULL>>,
    <<Some("sub_1"), Some("cus_1"), Some(T0), Some(T0 + Days(29))>>,
    <<Some("sub_1"), NULL, Some(T0), NULL>>,
    <<NULL, Some("cus_1"), NULL, Some(T0 + Days(29))>> }

----------------------------------------------------------------------------
(* State *)

NoCall ==
  [op |-> "none", user |-> "u1", plan |-> "trial", status |-> "active",
   sub |-> NULL, cus |-> NULL, pstart |-> NULL, pend |-> NULL, at |-> 0,
   reason |-> NULL]

Call(op, u, plan, status, sub, cus, ps, pe, t) ==
  [op |-> op, user |-> u, plan |-> plan, status |-> status,
   sub |-> sub, cus |-> cus, pstart |-> ps, pend |-> pe, at |-> t,
   reason |-> NULL]

\* a call without arguments of its own
Plain(op, u, t) == Call(op, u, "trial", "active", NULL, NULL, NULL, NULL, t)

\* a session: where it stands in its call, which call of which user, the
\* transaction's now(), the FOUND and the rows of its SELECT (while
\* createSubscription reads back: the rows its write left), and the calls
\* that wrote the user's rows since that SELECT
Idle ==
  [pc |-> "idle", op |-> "none", user |-> "u1", at |-> 0, found |-> FALSE,
   base |-> <<>>, rivals |-> <<>>]

\* the n-th completed call: its outcome, whether the store failed it, and what
\* it returned
Done(n, c, res, fault, ret) ==
  [n |-> n, call |-> c, res |-> res, fault |-> fault, ret |-> ret]

\* the rows of a subscriber who has none, or one written by a first webhook
\* event of plan and status in Pl \X St with optional arguments in Op,
\* delivered at T0
FirstRows(u, PlSt, Op) ==
  {<<>>} \cup
  { <<WebhookInsert(Call("apply", u, ps[1], ps[2], OrNull(o[1]), OrNull(o[2]),
                         o[3], o[4], T0))>> : ps \in PlSt, o \in Op }

\* the state from which a behaviour is observed
InitWith(rows) ==
  /\ store = [u \in Users |-> IF u = "u1" THEN rows ELSE <<>>]
  /\ now = T0
  /\ proc = [p \in Procs |-> Idle]
  /\ last = Done(0, NoCall, "ok", FALSE, NULL)
  /\ ops = 0

Init == \E rows \in FirstRows("u1", Plans \X Statuses, EventOptions) : InitWith(rows)

\* the sessions after call c wrote the rows of its user: every other session
\* between its SELECT and its write on that user notes c, and session p goes
\* on as next
NoteWrite(p, c, next) ==
  [q \in Procs |->
     IF q = p THEN next
     ELSE IF proc[q].pc = "selected" /\ proc[q].user = c.user
       THEN [proc[q] EXCEPT !.rivals = Append(@, c)]
       ELSE proc[q]]

\* sessions are interchangeable: of the idle sessions the first takes the
\* next call
FirstIdle(p) == \A q \in Procs : proc[q].pc = "idle" => p = "s1" \/ q # "s1"

----------------------------------------------------------------------------
(* The cancel-subscription function *)

\* !x of an optional string
Falsy(x) == IsNull(x) \/ x = Some("")

Response(status, body) == [status |-> status, body |-> body]

\* a handler that refuses a request without a reason
cancelRequestRequiringReason(rowsOf, userId, reason, rpcFails, t) ==
  IF Falsy(userId) \/ Falsy(reason)
    THEN [store |-> rowsOf, response |-> Response(400, "User ID is required"),
          log |-> <<>>]
    ELSE IF rpcFails
      THEN [store |-> rowsOf, response |-> Response(400, "rpc error"), log |-> <<>>]
      ELSE [store |-> [rowsOf EXCEPT ![userId[1]] =
                         cancel_subscription_gracefully(@, Plain("cancel", userId[1], t))],
            response |-> Response(200, "success"),
            log |-> <<reason[1]>>]

\* the handler of a POST with body { userId, reason }: the rows after it, its
\* response, and what it passed to console.log
cancelRequest(rowsOf, userId, reason, rpcFails, t) ==
  IF Falsy(userId)
    THEN [store |-> rowsOf, response |-> Response(400, "User ID is required"),
          log |-> <<>>]
    ELSE IF rpcFails
      THEN [store |-> rowsOf, response |-> Response(400, "rpc error"), log |-> <<>>]
      ELSE [store |-> [rowsOf EXCEPT ![userId[1]] =
                         cancel_subscription_gracefully(@, Plain("cancel", userId[1], t))],
            response |-> Response(200, "success"),
            log |-> IF Falsy(reason) THEN <<>> ELSE <<reason[1]>>]

----------------------------------------------------------------------------
(* Operations.  The arguments of a webhook call are local to its            *)
(* transaction until its write, so the model draws them at the write.       *)

\* the rpc handle_subscription_webhook begins in session p: now() is fixed and
\* the SELECT run; a failed rpc is thrown to the caller
BeginWebhook(p, op, u, rpcFails) ==
  /\ proc[p].pc = "idle"
  /\ FirstIdle(p)
  /\ ops < MaxOps
  /\ ops' = ops + 1
  /\ IF rpcFails
       THEN /\ last' = Done(last.n + 1, Plain(op, u, now), "error", TRUE, NULL)
            /\ UNCHANGED proc
       ELSE /\ proc' = [proc EXCEPT ![p] =
                          [pc |-> "selected", op |-> op, user |-> u, at |-> now,
                           found |-> store[u] # <<>>, base |-> store[u],
                           rivals |-> <<>>]]
            /\ UNCHANGED last
  /\ UNCHANGED <<store, now>>

\* updateSubscriptionFromWebhook(userId, ...) calls the rpc
Apply(p, u, rpcFails) == BeginWebhook(p, "apply", u, rpcFails)

\* createSubscription(userId, ...) calls the rpc
CreateSubscription(p, u, rpcFails) == BeginWebhook(p, "create", u, rpcFails)

\* the arguments updateSubscriptionFromWebhook passes to the rpc
ApplyCall(p, planType, status, sub, cus, periodStart, periodEnd) ==
  Call("apply", proc[p].user, planType, status, OrNull(sub), OrNull(cus),
       periodStart, periodEnd, proc[p].at)

\* the arguments createSubscription passes to the rpc: status active and the
\* period it computed from its clock
CreateCall(p, planType, sub, cus) ==
  Call("create", proc[p].user, planType, "active", OrNull(sub), OrNull(cus),
       Some(proc[p].at), Some(CreatePeriodEnd(planType, proc[p].at)), proc[p].at)

\* session p after the write w of its webhook call c: a raise is thrown to
\* the caller; createSubscription goes on to read the row back
Committed(p, c, w) ==
  /\ store' = [store EXCEPT ![c.user] = w.rows]
  /\ IF w.raised
       THEN /\ last' = Done(last.n + 1, c, "unique_violation", FALSE, NULL)
            /\ proc' = [proc EXCEPT ![p] = Idle]
       ELSE IF c.op = "create"
         THEN /\ proc' = NoteWrite(p, c, [Idle EXCEPT !.pc = "fetch", !.op = c.op,
                                                      !.user = c.user, !.at = c.at,
                                                      !.base = w.rows])
              /\ UNCHANGED last
         ELSE /\ proc' = NoteWrite(p, c, Idle)
              /\ last' = Done(last.n + 1, c, "ok", FALSE, NULL)

\* the UPDATE or INSERT of handle_subscription_webhook with arguments c, and
\* its commit
WebhookCommit(p, c) ==
  /\ proc[p].pc = "selected"
  /\ proc[p].op = c.op
  /\ Committed(p, c, WebhookWrite(store[c.user], c, proc[p].found))
  /\ UNCHANGED <<now, ops>>

ApplyCommit(p, planType, status, sub, cus, periodStart, periodEnd) ==
  WebhookCommit(p, ApplyCall(p, planType, status, sub, cus, periodStart, periodEnd))

CreateCommit(p, planType, sub, cus) ==
  WebhookCommit(p, CreateCall(p, planType, sub, cus))

\* createSubscription reads the row back and returns it, or throws
CreateFetch(p, queryFails) ==
  /\ proc[p].pc = "fetch"
  /\ LET subscription == getUserSubscription(store[proc[p].user], queryFails)
     IN  last' = Done(last.n + 1, Plain("create", proc[p].user, proc[p].at),
                      IF IsNull(subscription) THEN "error" ELSE "ok",
                      queryFails, subscription)
  /\ proc' = [proc EXCEPT ![p] = Idle]
  /\ UNCHANGED <<store, now, ops>>

\* a one-statement database function called through rpc
OneStatement(p, c, rpcFails) ==
  /\ proc[p].pc = "idle"
  /\ FirstIdle(p)
  /\ ops < MaxOps
  /\ ops' = ops + 1
  /\ IF rpcFails
       THEN /\ last' = Done(last.n + 1, c, "error", TRUE, NULL)
            /\ UNCHANGED <<store, proc>>
       ELSE /\ store' = [store EXCEPT ![c.user] = RunAlone(@, c)]
            /\ proc' = NoteWrite(p, c, Idle)
            /\ last' = Done(last.n + 1, c, "ok", FALSE, NULL)
  /\ UNCHANGED now

\* a cancellation whose UPDATE has no WHERE clause
CancelEveryone(p, u, rpcFails) ==
  /\ proc[p].pc = "idle"
  /\ FirstIdle(p)
  /\ ops < MaxOps
  /\ ops' = ops + 1
  /\ IF rpcFails
       THEN /\ last' = Done(last.n + 1, Plain("cancel", u, now), "error", TRUE, NULL)
            /\ UNCHANGED <<store, proc>>
       ELSE /\ store' = [v \in Users |-> RunAlone(store[v], Plain("cancel", v, now))]
            /\ proc' = NoteWrite(p, Plain("cancel", u, now), Idle)
            /\ last' = Done(last.n + 1, Plain("cancel", u, now), "ok", FALSE, NULL)
  /\ UNCHANGED now

CancelSubscription(p, u, rpcFails) == OneStatement(p, Plain("cancel", u, now), rpcFails)

ReactivateSubscription(p, u, rpcFails) ==
  OneStatement(p, Plain("reactivate", u, now), rpcFails)

\* a POST to cancel-subscription; the request and its response
CancelRequest(p, userId, reason, rpcFails) ==
  /\ proc[p].pc = "idle"
  /\ FirstIdle(p)
  /\ ops < MaxOps
  /\ ops' = ops + 1
  /\ store' = cancelRequest(store, userId, reason, rpcFails, now).store
  /\ last' = Done(last.n + 1,
                  [Plain("cancelRequest", IF IsNull(userId) THEN "" ELSE userId[1], now)
                     EXCEPT !.reason = reason],
                  IF cancelRequest(store, userId, reason, rpcFails, now).response.status = 200
                    THEN "ok" ELSE "error",
                  rpcFails,
                  Some([response |-> cancelRequest(store, userId, reason, rpcFails, now).response,
                        log |-> cancelRequest(store, userId, reason, rpcFails, now).log]))
  /\ proc' = IF Falsy(userId) \/ rpcFails THEN proc
             ELSE NoteWrite(p, Plain("cancel", userId[1], now), Idle)
  /\ UNCHANGED now

\* an access check that starts the trial of a user who has no row
ResolveAccessStartingTrial(p, u, queryFails) ==
  /\ proc[p].pc = "idle"
  /\ FirstIdle(p)
  /\ ops < MaxOps
  /\ ops' = ops + 1
  /\ last' = Done(last.n + 1, Plain("resolveAccess", u, now), "ok", queryFails,
                  Some(checkSubscriptionAccess(store[u], queryFails, now)))
  /\ store' = [store EXCEPT ![u] =
                 IF @ = <<>> /\ ~queryFails
                   THEN <<WebhookInsert(Plain("apply", u, now))>> ELSE @]
  /\ UNCHANGED <<now, proc>>

\* checkSubscriptionAccess(userId)
ResolveAccess(p, u, queryFails) ==
  /\ proc[p].pc = "idle"
  /\ FirstIdle(p)
  /\ ops < MaxOps
  /\ ops' = ops + 1
  /\ last' = Done(last.n + 1, Plain("resolveAccess", u, now), "ok", queryFails,
                  Some(checkSubscriptionAccess(store[u], queryFails, now)))
  /\ UNCHANGED <<store, now, proc>>

\* getSubscriptionStats(): the query returns the rows in the order order
ComputeStats(p, order, queryFails) ==
  /\ proc[p].pc = "idle"
  /\ FirstIdle(p)
  /\ ops < MaxOps
  /\ ops' = ops + 1
  /\ last' = Done(last.n + 1, Plain("computeStats", "u1", now), "ok", queryFails,
                  Some(getSubscriptionStats(AllRows(store, order), queryFails)))
  /\ UNCHANGED <<store, now, proc>>

\* time passes, and a job marks the active rows whose period has ended expired
TickExpiring ==
  /\ now < T0 + MaxClock * ClockStep
  /\ now' = now + ClockStep
  /\ store' = [u \in Users |->
                 [i \in DOMAIN store[u] |->
                    IF store[u][i].status = "active"
                       /\ store[u][i].current_period_end <= now + ClockStep
                      THEN update_billing_period_text(
                             [store[u][i] EXCEPT !.status = "expired"])
                      ELSE store[u][i]]]
  /\ UNCHANGED <<proc, last, ops>>

\* time passes
Tick ==
  /\ now < T0 + MaxClock * ClockStep
  /\ now' = now + ClockStep
  /\ UNCHANGED <<store, proc, last, ops>>

\* one session; every event for one subscriber, and cancel and reactivate
\* for that subscriber and for one who has no row
OneSession == {"s1"}

OneUser == {"u1"}

OneOrOther == {"u1", "u2"}

Next ==
  \/ \E p \in OneSession, u \in OneUser, rpcFails \in BOOLEAN : Apply(p, u, rpcFails)
  \/ \E p \in OneSession, u \in OneUser, rpcFails \in BOOLEAN : CreateSubscription(p, u, rpcFails)
  \/ \E p \in OneSession, planType \in Plans, status \in Statuses, o \in EventOptions :
        ApplyCommit(p, planType, status, o[1], o[2], o[3], o[4])
  \/ \E p \in OneSession, planType \in Plans, o \in EventOptions : CreateCommit(p, planType, o[1], o[2])
  \/ \E p \in OneSession, queryFails \in BOOLEAN : CreateFetch(p, queryFails)
  \/ \E p \in OneSession, u \in OneOrOther, rpcFails \in BOOLEAN : CancelSubscription(p, u, rpcFails)
  \/ \E p \in OneSession, u \in OneOrOther, rpcFails \in BOOLEAN : ReactivateSubscription(p, u, rpcFails)
  \/ \E p \in OneSession, u \in OneUser, queryFails \in BOOLEAN : ResolveAccess(p, u, queryFails)
  \/ Tick

Spec == Init /\ [][Next]_vars

\* two sessions racing on one subscriber, the events of two plans and two
\* statuses
RacePlans == {"monthly", "annual"}

RaceStatuses == {"active", "cancelled"}

\* a status-only event and a full event
RaceOptions ==
  { <<NULL, NULL, NULL, NULL>>,
    <<Some("sub_1"), Some("cus_1"), Some(T0), Some(T0 + Days(29))>> }

InitRace == \E rows \in FirstRows("u1", {<<"monthly", "active">>}, RaceOptions) : InitWith(rows)

NextRace ==
  \/ \E p \in Procs, u \in OneUser, rpcFails \in BOOLEAN : Apply(p, u, rpcFails)
  \/ \E p \in Procs, u \in OneUser, rpcFails \in BOOLEAN : CreateSubscription(p, u, rpcFails)
  \/ \E p \in Procs, planType \in RacePlans, status \in RaceStatuses, o \in RaceOptions :
        ApplyCommit(p, planType, status, o[1], o[2], o[3], o[4])
  \/ \E p \in Procs, planType \in RacePlans, o \in RaceOptions : CreateCommit(p, planType, o[1], o[2])
  \/ \E p \in Procs, queryFails \in BOOLEAN : CreateFetch(p, queryFails)
  \/ \E p \in Procs, u \in OneUser, rpcFails \in BOOLEAN : CancelSubscription(p, u, rpcFails)
  \/ \E p \in Procs, u \in OneUser, rpcFails \in BOOLEAN : ReactivateSubscription(p, u, rpcFails)
  \/ \E p \in Procs, u \in OneUser, queryFails \in BOOLEAN : ResolveAccess(p, u, queryFails)
  \/ Tick

SpecRace == InitRace /\ [][NextRace]_vars

\* the days on which a first call is made in the calendar runs: ends of long
\* and short months, the leap day, and days inside a month
CalendarDays ==
  { DaysFromCivil(2023, 1, 31), DaysFromCivil(2023, 2, 28),
    DaysFromCivil(2023, 3, 31), DaysFromCivil(2023, 8, 31),
    DaysFromCivil(2023, 12, 31), DaysFromCivil(2024, 1, 30),
    DaysFromCivil(2024, 1, 31), DaysFromCivil(2024, 2, 29),
    DaysFromCivil(2024, 5, 31), DaysFromCivil(2024, 8, 30),
    DaysFromCivil(2024, 10, 31), DaysFromCivil(2024, 12, 15) }

\* midnight of those days and one tick later
CalendarStarts == { Days(d) + k : d \in CalendarDays, k \in {0, 1} }

\* an empty store on one of the calendar instants, and one call to make
InitCalendar ==
  \E t \in CalendarStarts :
     /\ store = [u \in Users |-> <<>>]
     /\ now = t
     /\ proc = [p \in Procs |-> Idle]
     /\ last = Done(0, NoCall, "ok", FALSE, NULL)
     /\ ops = MaxOps - 1

\* one session writes the first row of one subscriber, by an active event or
\* by createSubscription
NextCalendar ==
  \/ \E p \in OneSession, u \in OneUser, rpcFails \in BOOLEAN : Apply(p, u, rpcFails)
  \/ \E p \in OneSession, u \in OneUser, rpcFails \in BOOLEAN : CreateSubscription(p, u, rpcFails)
  \/ \E p \in OneSession, planType \in Plans, o \in EventOptions :
        ApplyCommit(p, planType, "active", o[1], o[2], o[3], o[4])
  \/ \E p \in OneSession, planType \in Plans, o \in EventOptions : CreateCommit(p, planType, o[1], o[2])
  \/ \E p \in OneSession, queryFails \in BOOLEAN : CreateFetch(p, queryFails)

SpecCalendar == InitCalendar /\ [][NextCalendar]_vars

\* the orders in which a query without ORDER BY may return the rows of the
\* three subscribers
RowOrders ==
  { <<"u1", "u2", "u3">>, <<"u1", "u3", "u2">>, <<"u2", "u1", "u3">>,
    <<"u2", "u3", "u1">>, <<"u3", "u1", "u2">>, <<"u3", "u2", "u1">> }

\* the rows the second and the third subscriber may start with
SecondRows ==
  { <<"semiannual", "cancelled">>, <<"monthly", "past_due">>,
    <<"annual", "active">>, <<"monthly", "active">> }

ThirdRows ==
  { <<"trial", "active">>, <<"annual", "expired">>, <<"monthly", "cancelled">> }

StatusOnly == { <<NULL, NULL, NULL, NULL>> }

\* the userId of a request: none, empty, or a subscriber's
RequestUsers == { NULL, Some("") } \cup { Some(u) : u \in Users }

\* the reason of a request: none, empty, or a text
Reasons == { NULL, Some(""), Some("too expensive") }

\* up to three subscribers with a row each, and one call to make
InitStats ==
  \E r1 \in FirstRows("u1", Plans \X Statuses, StatusOnly),
     r2 \in FirstRows("u2", SecondRows, StatusOnly),
     r3 \in FirstRows("u3", ThirdRows, StatusOnly) :
     /\ store = [u \in Users |-> IF u = "u1" THEN r1 ELSE IF u = "u2" THEN r2 ELSE r3]
     /\ now = T0
     /\ proc = [p \in Procs |-> Idle]
     /\ last = Done(0, NoCall, "ok", FALSE, NULL)
     /\ ops = MaxOps - 1

\* one session makes one call of any operation for any of the subscribers
NextStats ==
  \/ \E p \in OneSession, u \in Users, rpcFails \in BOOLEAN : Apply(p, u, rpcFails)
  \/ \E p \in OneSession, u \in Users, rpcFails \in BOOLEAN : CreateSubscription(p, u, rpcFails)
  \/ \E p \in OneSession, planType \in RacePlans, status \in RaceStatuses, o \in RaceOptions :
        ApplyCommit(p, planType, status, o[1], o[2], o[3], o[4])
  \/ \E p \in OneSession, planType \in RacePlans, o \in RaceOptions : CreateCommit(p, planType, o[1], o[2])
  \/ \E p \in OneSession, queryFails \in BOOLEAN : CreateFetch(p, queryFails)
  \/ \E p \in OneSession, u \in Users, rpcFails \in BOOLEAN : CancelSubscription(p, u, rpcFails)
  \/ \E p \in OneSession, u \in Users, rpcFails \in BOOLEAN : ReactivateSubscription(p, u, rpcFails)
  \/ \E p \in OneSession, u \in Users, queryFails \in BOOLEAN : ResolveAccess(p, u, queryFails)
  \/ \E p \in OneSession, order \in RowOrders, queryFails \in BOOLEAN :
        ComputeStats(p, order, queryFails)
  \/ \E p \in OneSession, userId \in RequestUsers, reason \in Reasons, rpcFails \in BOOLEAN :
        CancelRequest(p, userId, reason, rpcFails)
  \/ Tick

SpecStats == InitStats /\ [][NextStats]_vars

\* two subscribers, each with a row or none, and two sessions
InitApart ==
  \E r1 \in FirstRows("u1", {<<"monthly", "active">>}, StatusOnly),
     r2 \in FirstRows("u2", {<<"annual", "cancelled">>}, RaceOptions) :
     /\ store = [u \in Users |-> IF u = "u1" THEN r1 ELSE IF u = "u2" THEN r2 ELSE <<>>]
     /\ now = T0
     /\ proc = [p \in Procs |-> Idle]
     /\ last = Done(0, NoCall, "ok", FALSE, NULL)
     /\ ops = 0

\* the writing operations of two sessions, each for either subscriber, in any
\* interleaving
NextApart ==
  \/ \E p \in Procs, u \in OneOrOther, rpcFails \in BOOLEAN : Apply(p, u, rpcFails)
  \/ \E p \in Procs, u \in OneOrOther, rpcFails \in BOOLEAN : CreateSubscription(p, u, rpcFails)
  \/ \E p \in Procs, planType \in RacePlans, status \in RaceStatuses, o \in RaceOptions :
        ApplyCommit(p, planType, status, o[1], o[2], o[3], o[4])
  \/ \E p \in Procs, planType \in RacePlans, o \in StatusOnly : CreateCommit(p, planType, o[1], o[2])
  \/ \E p \in Procs, queryFails \in BOOLEAN : CreateFetch(p, queryFails)
  \/ \E p \in Procs, u \in OneOrOther, rpcFails \in BOOLEAN : CancelSubscription(p, u, rpcFails)
  \/ \E p \in Procs, u \in OneOrOther, rpcFails \in BOOLEAN : ReactivateSubscription(p, u, rpcFails)

SpecApart == InitApart /\ [][NextApart]_vars

----------------------------------------------------------------------------
(* Properties *)

\* this step completes a call of op that the store did not fail
Completes(op) ==
  /\ last'.n = last.n + 1
  /\ last'.call.op = op
  /\ last'.res = "ok"
  /\ ~last'.fault

\* the fields of a row that cancel and reactivate leave alone
SameButStatus(r1, r2) ==
  /\ r1.user_id = r2.user_id
  /\ r1.plan_type = r2.plan_type
  /\ r1.stripe_subscription_id = r2.stripe_subscription_id
  /\ r1.stripe_customer_id = r2.stripe_customer_id
  /\ r1.current_period_start = r2.current_period_start
  /\ r1.current_period_end = r2.current_period_end
  /\ r1.billing_period_text = r2.billing_period_text
  /\ r1.billing_period_accurate = r2.billing_period_accurate

\* the rows after a step are the rows before it with the status set
StatusSet(before, after, status) ==
  /\ Len(after) = Len(before)
  /\ \A i \in DOMAIN before :
        after[i].status = status /\ SameButStatus(before[i], after[i])

\* C1: cancel on a subscriber with a stored row sets the status to cancelled
\* and leaves the plan, both external refs, both period bounds, the period
\* text and the accuracy flag as they were, whatever the status and the
\* period were.
C1_CancelKeepsPeriod ==
  [][ (Completes("cancel") /\ store[last'.call.user] # <<>>)
        => StatusSet(store[last'.call.user], store'[last'.call.user], "cancelled")
    ]_vars

\* a cancel has just acted on a stored row that has both refs and whose
\* period is over
C1_Witness ==
  /\ last.call.op = "cancel" /\ last.res = "ok" /\ last.call.at = now
  /\ store[last.call.user] # <<>>
  /\ LET r == store[last.call.user][1]
     IN  /\ r.status = "cancelled"
         /\ r.stripe_subscription_id # NULL /\ r.stripe_customer_id # NULL
         /\ r.current_period_end <= now
         /\ r.updated_at = last.call.at

\* the plan and the period bounds of a row
PlanAndPeriod(r) == <<r.plan_type, r.current_period_start, r.current_period_end>>

\* cancel at time t1 and then reactivate at time t2 on rows
CancelThenReactivate(rows, u, t1, t2) ==
  reactivate_subscription(
    cancel_subscription_gracefully(rows, Plain("cancel", u, t1)),
    Plain("reactivate", u, t2))

\* C2: reactivate on a subscriber with a stored row sets the status to active
\* and leaves the plan, the refs and the period bounds as they were; and
\* cancel followed by reactivate on an active row gives back the row's status,
\* plan and period bounds.
C2_ReactivateKeepsPeriod ==
  [][ /\ (Completes("reactivate") /\ store[last'.call.user] # <<>>)
           => StatusSet(store[last'.call.user], store'[last'.call.user], "active")
      /\ \A u \in Users : \A i \in DOMAIN store[u] :
           store[u][i].status = "active" =>
             LET back == CancelThenReactivate(store[u], u, now, now + ClockStep)[i]
             IN  /\ back.status = "active"
                 /\ PlanAndPeriod(back) = PlanAndPeriod(store[u][i])
    ]_vars

\* a reactivate has just acted, as the second call, on a stored row whose
\* period began before it
C2_Witness ==
  /\ last.call.op = "reactivate" /\ last.res = "ok" /\ last.n = 2
  /\ store[last.call.user] # <<>>
  /\ LET r == store[last.call.user][1]
     IN  /\ r.status = "active"
         /\ r.updated_at = last.call.at
         /\ r.updated_at > r.current_period_start

\* the period bounds of the rows
Periods(rows) ==
  [i \in DOMAIN rows |-> <<rows[i].current_period_start, rows[i].current_period_end>>]

\* C3: an event that carries only a status change (periodStart and periodEnd
\* omitted), applied to a subscriber that has a stored row, leaves the row's
\* period_start and period_end as they were.
C3_StatusOnlyKeepsPeriod ==
  [][ ( /\ Completes("apply")
        /\ IsNull(last'.call.pstart) /\ IsNull(last'.call.pend)
        /\ store[last'.call.user] # <<>> )
        => Periods(store'[last'.call.user]) = Periods(store[last'.call.user])
    ]_vars

\* the arguments of two webhook calls are the same event
SameEvent(c1, c2) ==
  /\ c1.op = c2.op /\ c1.user = c2.user
  /\ c1.plan = c2.plan /\ c1.status = c2.status
  /\ c1.sub = c2.sub /\ c1.cus = c2.cus
  /\ c1.pstart = c2.pstart /\ c1.pend = c2.pend

\* the rows without their updated_at
Content(rows) == [i \in DOMAIN rows |-> [rows[i] EXCEPT !.updated_at = 0]]

\* C4: applying an event a second time, right after it was applied, leaves the
\* store as the first apply left it, for every event (also one that omits
\* periodStart or periodEnd) and every state before.
C4_ApplyTwiceIsApplyOnce ==
  [][ ( /\ Completes("apply")
        /\ last.call.op = "apply" /\ last.res = "ok"
        /\ SameEvent(last.call, last'.call) )
        => Content(store'[last'.call.user]) = Content(store[last'.call.user])
    ]_vars

\* C5: after any sequence and interleaving of apply, createSubscription,
\* cancel and reactivate calls, two concurrent deliveries for a subscriber
\* without a row included, the store holds at most one row per subscriber.
C5_AtMostOneRow == \A u \in Users : Len(store[u]) <= 1

\* the second of two concurrent inserts for one subscriber was refused and the
\* subscriber has the one row of the first
C5_Witness ==
  /\ last.res = "unique_violation"
  /\ last.call.op = "apply"
  /\ Len(store[last.call.user]) = 1
  /\ store[last.call.user][1].updated_at = last.call.at

\* the rows after call c1 and then call c2 ran one after the other
InOrder(rows, c1, c2) == RunAlone(RunAlone(rows, c1), c2)

\* C6: when an apply ends and one other call wrote the subscriber's rows
\* between its SELECT and its write, the apply completes and the rows are
\* those of the two calls run one after the other, in one of the two orders,
\* from the rows at its SELECT.
C6_ConcurrentCallsSerialize ==
  [][ \A q \in Procs :
        ( /\ proc[q].pc = "selected" /\ proc[q].op = "apply"
          /\ Len(proc[q].rivals) = 1
          /\ proc'[q].pc = "idle"
          /\ last'.n = last.n + 1 )
        => /\ last'.res = "ok"
           /\ store'[proc[q].user] \in
                { InOrder(proc[q].base, proc[q].rivals[1], last'.call),
                  InOrder(proc[q].base, last'.call, proc[q].rivals[1]) }
    ]_vars

\* the last call was checkSubscriptionAccess and it returned a stored row
ResolvedRow ==
  /\ last.call.op = "resolveAccess"
  /\ ~IsNull(last.ret)
  /\ ~IsNull(last.ret[1].subscription)

\* C7: for a stored subscription with status active, past_due or cancelled,
\* checkSubscriptionAccess returns hasAccess true exactly when its clock is
\* strictly before current_period_end; a cancelled one keeps access until the
\* period end and has none from the period end onwards.
C7_AccessUntilPeriodEnd ==
  ( /\ ResolvedRow
    /\ last.ret[1].subscription[1].status \in {"active", "past_due", "cancelled"} )
  => ( last.ret[1].hasAccess
         <=> last.call.at < last.ret[1].subscription[1].current_period_end )

\* a cancelled subscription was resolved at the very instant its period ends,
\* and has no access
C7_Witness ==
  /\ ResolvedRow
  /\ last.ret[1].subscription[1].status = "cancelled"
  /\ last.call.at = last.ret[1].subscription[1].current_period_end
  /\ ~last.ret[1].hasAccess

\* C8: for a stored subscription with status expired, checkSubscriptionAccess
\* returns hasAccess false whatever the period end and the clock are.
C8_ExpiredHasNoAccess ==
  ( /\ ResolvedRow
    /\ last.ret[1].subscription[1].status = "expired" )
  => ~last.ret[1].hasAccess

\* an expired subscription whose period is not over was resolved
C8_Witness ==
  /\ ResolvedRow
  /\ last.ret[1].subscription[1].status = "expired"
  /\ last.call.at < last.ret[1].subscription[1].current_period_end
  /\ ~last.ret[1].hasAccess

\* the answer for an implicit trial
TrialAnswer ==
  [hasAccess |-> TRUE, subscription |-> NULL,
   features |-> [maxCustomers |-> 100, maxBranches |-> 1,
                 advancedAnalytics |-> FALSE, prioritySupport |-> FALSE,
                 customBranding |-> FALSE, apiAccess |-> FALSE],
   daysRemaining |-> 30]

\* C9: for a subscriber with no stored row, checkSubscriptionAccess returns
\* hasAccess true, subscription null, the trial feature set and
\* daysRemaining 30.
C9_NoRowIsImplicitTrial ==
  [][ ( /\ last'.n = last.n + 1
        /\ last'.call.op = "resolveAccess"
        /\ store[last'.call.user] = <<>> )
        => last'.ret = Some(TrialAnswer)
    ]_vars

\* a subscriber without a row was resolved, after time had passed, by a read
\* that did not fail
C9_Witness ==
  /\ last.call.op = "resolveAccess" /\ ~last.fault
  /\ last.call.at > T0
  /\ store[last.call.user] = <<>>
  /\ last.ret = Some(TrialAnswer)

\* C10: when the read of the store fails, checkSubscriptionAccess does not
\* raise and returns hasAccess true with the trial feature set, whatever the
\* stored status is.
C10_ReadFailureFailsOpen ==
  ( last.call.op = "resolveAccess" /\ last.fault )
  => /\ last.res = "ok"
     /\ ~IsNull(last.ret)
     /\ last.ret[1].hasAccess
     /\ last.ret[1].features = getTrialFeatures

\* the read failed for a subscriber whose stored row is expired and whose
\* period has ended
C10_Witness ==
  /\ last.call.op = "resolveAccess" /\ last.fault /\ last.n = 1
  /\ store[last.call.user] # <<>>
  /\ store[last.call.user][1].status = "expired"
  /\ store[last.call.user][1].current_period_end <= last.call.at
  /\ last.ret[1].hasAccess

\* C11: in every state every stored row has current_period_end later than
\* current_period_start, also a row written by an event that supplied
\* periodStart or periodEnd itself.
C11_PeriodEndAfterStart ==
  \A u \in Users : \A i \in DOMAIN store[u] :
     store[u][i].current_period_end > store[u][i].current_period_start

\* no createSubscription stands between its write and its read back
NoFetchPending == \A p \in Procs : proc[p].pc # "fetch"

\* the rows of the subscriber are those the last completed call left
LastWrote(op) == last.call.op = op /\ last.res = "ok" /\ NoFetchPending

\* C12: after an apply without periodEnd the stored current_period_end is the
\* calculator's result for the event's plan and the start (the supplied
\* periodStart, or now() when that is omitted too); a supplied periodEnd is
\* stored as it is.
C12_PeriodEndComputedOrSupplied ==
  LastWrote("apply") =>
    /\ store[last.call.user] # <<>>
    /\ \A i \in DOMAIN store[last.call.user] :
         store[last.call.user][i].current_period_end =
           IF ~IsNull(last.call.pend) THEN last.call.pend[1]
           ELSE calculate_subscription_period_end(
                  last.call.plan,
                  IF IsNull(last.call.pstart) THEN last.call.at
                                              ELSE last.call.pstart[1])

\* a monthly event that supplied periodStart 2024-01-31 and no periodEnd was
\* applied after that start: the stored end is 2024-02-29
C12_Witness ==
  /\ LastWrote("apply")
  /\ last.call.plan = "monthly"
  /\ IsNull(last.call.pend) /\ ~IsNull(last.call.pstart)
  /\ last.call.at > last.call.pstart[1]
  /\ store[last.call.user] # <<>>
  /\ store[last.call.user][1].current_period_end = Days(DaysFromCivil(2024, 2, 29))

\* the period end of row r is the calculator's for its plan and period start
Derivable(r) ==
  r.current_period_end =
    calculate_subscription_period_end(r.plan_type, r.current_period_start)

\* this step is the write of an apply for u that supplied the period end e
ApplySupplies(u, e) ==
  /\ Completes("apply")
  /\ last'.call.user = u
  /\ last'.call.pend = Some(e)

\* this step is the write of a createSubscription for u, which supplies the
\* period end it computed for plan planType
CreateSupplies(u, planType, e) ==
  \E p \in Procs :
     /\ proc[p].pc = "selected" /\ proc[p].op = "create" /\ proc[p].user = u
     /\ proc'[p].pc = "fetch"
     /\ e = CreatePeriodEnd(planType, proc[p].at)

CalendarPlans == {"monthly", "semiannual", "annual"}

MonthsOfPlan(plan) ==
  CASE plan = "monthly" -> 1 [] plan = "semiannual" -> 6 [] plan = "annual" -> 12

\* the period of row r is its plan's count of calendar months, the day of
\* month clamped to the last day of the target month
ClampedPeriod(r) ==
  r.plan_type \in CalendarPlans =>
    r.current_period_end = AddMonthsSql(r.current_period_start, MonthsOfPlan(r.plan_type))

\* C14: for monthly, semiannual and annual plans the computed period end is
\* the start advanced by 1, 6 or 12 calendar months with the day of month
\* clamped to the last day of the target month, on every path that computes
\* a period end: the database function for an event without periodEnd, and
\* createSubscription.
C14_ClampedOnEveryPath ==
  /\ (LastWrote("apply") /\ IsNull(last.call.pend)) =>
        \A i \in DOMAIN store[last.call.user] : ClampedPeriod(store[last.call.user][i])
  /\ (last.call.op = "create" /\ last.res = "ok" /\ ~IsNull(last.ret)) =>
        ClampedPeriod(last.ret[1])

\* C15: for every plan and every start the computed period end is strictly
\* later than the start, in the database function and in createSubscription
\* alike, and for trial it is exactly the start plus 30 days; so is the
\* period of the row that an event without periodEnd leaves.
C15_PeriodEndAfterStart ==
  /\ \A plan \in Plans :
        /\ calculate_subscription_period_end(plan, now) > now
        /\ CreatePeriodEnd(plan, now) > now
  /\ calculate_subscription_period_end("trial", now) = now + Days(30)
  /\ CreatePeriodEnd("trial", now) = now + Days(30)
  /\ (LastWrote("apply") /\ IsNull(last.call.pend)) =>
        \A i \in DOMAIN store[last.call.user] :
           /\ store[last.call.user][i].current_period_end
                > store[last.call.user][i].current_period_start
           /\ last.call.plan = "trial" =>
                store[last.call.user][i].current_period_end
                  = store[last.call.user][i].current_period_start + Days(30)

\* an annual row was created on the leap day 2024-02-29 and read back: its
\* end is later than its start
C15_Witness ==
  /\ last.call.op = "create" /\ last.res = "ok" /\ ~IsNull(last.ret)
  /\ last.ret[1].plan_type = "annual"
  /\ last.ret[1].current_period_start = Days(DaysFromCivil(2024, 2, 29))
  /\ last.ret[1].current_period_end > last.ret[1].current_period_start

\* plan values outside the catalog
UnknownPlans == {"weekly", "lifetime"}

\* C16: a plan value outside {trial, monthly, semiannual, annual} is refused:
\* the feature lookup does not answer with the trial features, and neither
\* period calculation answers with a 30-day period.
C16_UnknownPlanIsRefused ==
  \A plan \in UnknownPlans :
     /\ getPlanFeatures(plan) # getTrialFeatures
     /\ calculate_subscription_period_end(plan, now) # now + Days(30)
     /\ CreatePeriodEnd(plan, now) # now + Days(30)

\* the whole days from the start of row r's period to its end
WholeDays(r) == (r.current_period_end - r.current_period_start) \div TicksPerDay

\* the accuracy flag of a period of d whole days for a plan
Classified(plan, d) ==
  \/ d >= 350 /\ plan = "annual"
  \/ d >= 150 /\ d < 350 /\ plan = "semiannual"
  \/ d >= 25 /\ d < 150 /\ plan \in {"monthly", "trial"}

\* day counts on both sides of each threshold
DayCounts == {0, 1, 24, 25, 31, 149, 150, 183, 349, 350, 366}

\* the row a first event of a plan leaves when it supplies a period of d
\* days and k ticks from now
RowOfPeriod(plan, d, k) ==
  WebhookInsert(Call("apply", "u1", plan, "active", NULL, NULL,
                     Some(now), Some(now + Days(d) + k), now))

\* C17: with d the whole-day count from current_period_start to
\* current_period_end, billing_period_accurate is true exactly when d >= 350
\* and the plan is annual, or 150 <= d < 350 and the plan is semiannual, or
\* 25 <= d < 150 and the plan is monthly or trial, and false for d < 25; a
\* period of 31 days is accurate for monthly and not for annual.
C17_AccurateByDaysAndPlan ==
  /\ \A u \in Users : \A i \in DOMAIN store[u] :
        store[u][i].billing_period_accurate
          = Some(Classified(store[u][i].plan_type, WholeDays(store[u][i])))
  /\ \A plan \in Plans, d \in DayCounts, k \in {0, 1} :
        RowOfPeriod(plan, d, k).billing_period_accurate = Some(Classified(plan, d))
  /\ RowOfPeriod("monthly", 31, 0).billing_period_accurate = Some(TRUE)
  /\ RowOfPeriod("annual", 31, 0).billing_period_accurate = Some(FALSE)

\* an annual row with the 29-day period 2024-01-31 to 2024-02-29 is stored and
\* flagged as not accurate
C17_Witness ==
  /\ store["u1"] # <<>>
  /\ store["u1"][1].plan_type = "annual"
  /\ store["u1"][1].current_period_start = Days(DaysFromCivil(2024, 1, 31))
  /\ store["u1"][1].current_period_end = Days(DaysFromCivil(2024, 2, 29))
  /\ store["u1"][1].billing_period_accurate = Some(FALSE)

\* C18: in every state, after any sequence of inserts and updates, each row's
\* billing_period_text and billing_period_accurate are what the trigger
\* function gives for the row's current plan and period bounds: no reader
\* sees a row whose derived fields are stale.
C18_DerivedFieldsFresh ==
  \A u \in Users : \A i \in DOMAIN store[u] :
     /\ store[u][i] = update_billing_period_text(store[u][i])
     /\ ~IsNull(store[u][i].billing_period_text)
     /\ ~IsNull(store[u][i].billing_period_accurate)

\* an event has changed the plan and the period of an existing row: the row
\* was updated later than its period began, and its text names that start
C18_Witness ==
  /\ LastWrote("apply")
  /\ last.n = 1 /\ last.call.at > T0
  /\ IsNull(last.call.pstart)
  /\ store[last.call.user] # <<>>
  /\ store[last.call.user][1].current_period_start = last.call.at
  /\ store[last.call.user][1].billing_period_text[1].from
       = ToCharMonDDYYYY(last.call.at)

\* C19: an apply on an existing row that omits stripeSubscriptionId or
\* stripeCustomerId leaves the stored value of each omitted id as it was; a
\* partial update never sets a stored id to null.
C19_OmittedRefsKept ==
  [][ ( Completes("apply") /\ store[last'.call.user] # <<>> )
        => \A i \in DOMAIN store[last'.call.user] :
             /\ IsNull(last'.call.sub) =>
                  store'[last'.call.user][i].stripe_subscription_id
                    = store[last'.call.user][i].stripe_subscription_id
             /\ IsNull(last'.call.cus) =>
                  store'[last'.call.user][i].stripe_customer_id
                    = store[last'.call.user][i].stripe_customer_id
    ]_vars

\* a cancelled event without ids has been applied, as the first call, to a
\* row that had both ids, and the row still has them
C19_Witness ==
  /\ LastWrote("apply") /\ last.n = 1
  /\ last.call.status = "cancelled"
  /\ IsNull(last.call.sub) /\ IsNull(last.call.cus)
  /\ store[last.call.user] # <<>>
  /\ store[last.call.user][1].updated_at = last.call.at
  /\ last.call.at > T0
  /\ store[last.call.user][1].stripe_subscription_id = Some("sub_1")
  /\ store[last.call.user][1].stripe_customer_id = Some("cus_1")

\* C20: cancel or reactivate for a subscriber with no stored row completes
\* without error, creates no row, and changes no row of another subscriber.
C20_NoRowNoOp ==
  [][ ( /\ last'.n = last.n + 1
        /\ last'.call.op \in {"cancel", "reactivate"}
        /\ ~last'.fault
        /\ store[last'.call.user] = <<>> )
        => /\ last'.res = "ok"
           /\ store' = store
    ]_vars

\* a cancel for a subscriber without a row has completed while another
\* subscriber has an active row
C20_Witness ==
  /\ LastWrote("cancel") /\ ~last.fault
  /\ store[last.call.user] = <<>>
  /\ \E u \in Users :
        /\ u # last.call.user
        /\ store[u] # <<>>
        /\ store[u][1].status = "active"

\* n is max(0, ceil(x / 1 day)) for a span of x ticks
IsDaysCeiling(n, x) ==
  /\ n >= 0
  /\ x <= 0 => n = 0
  /\ x > 0 => /\ n * TicksPerDay >= x
              /\ (n - 1) * TicksPerDay < x

\* C21: daysRemaining of checkSubscriptionAccess for a stored subscription is
\* max(0, ceil((current_period_end - now) / 1 day)) whatever the status: 0
\* from the period end onwards, and never negative.
C21_DaysRemainingIsCeiling ==
  ResolvedRow =>
    IsDaysCeiling(last.ret[1].daysRemaining,
                  last.ret[1].subscription[1].current_period_end - last.call.at)

\* an expired subscription was resolved fourteen and a half days before its
\* period end: fifteen days remain
C21_Witness ==
  /\ ResolvedRow
  /\ last.ret[1].subscription[1].status = "expired"
  /\ 2 * (last.ret[1].subscription[1].current_period_end - last.call.at)
       = 29 * TicksPerDay
  /\ last.ret[1].daysRemaining = 15

\* the last call was getSubscriptionStats and its query succeeded
StatsAnswered == last.call.op = "computeStats" /\ ~last.fault

\* the rows of all subscribers
StoredRows == AllRows(store, <<"u1", "u2", "u3">>)

\* the catalog price of a row in cents, 0 for a row that earns nothing
CatalogCents(sub) ==
  IF sub.plan_type = "trial" \/ sub.status \notin {"active", "expired", "cancelled"}
    THEN 0
    ELSE CASE sub.plan_type = "monthly"    -> 299
           [] sub.plan_type = "semiannual" -> 999
           [] sub.plan_type = "annual"     -> 1999

RECURSIVE SumCents(_)
SumCents(rows) ==
  IF rows = <<>> THEN 0 ELSE CatalogCents(Head(rows)) + SumCents(Tail(rows))

\* C22: the revenue getSubscriptionStats reports is the sum of the catalog
\* prices (2.99, 9.99, 19.99) of the rows whose plan is not trial and whose
\* status is active, expired or cancelled; past_due and trial rows add nothing.
C22_RevenueIsCatalogSum ==
  StatsAnswered => last.ret[1].revenue = ToDouble(SumCents(StoredRows))

\* the rows in the store, each named by its subscriber and its position
RowIds == UNION { { <<u, i>> : i \in DOMAIN store[u] } : u \in Users }

CancelledIds == { id \in RowIds : store[id[1]][id[2]].status = "cancelled" }

\* C23: the churn rate getSubscriptionStats reports is the number of cancelled
\* rows divided by the number of rows, times 100, and 0 when there are no rows.
C23_ChurnRateIsCancelledShare ==
  StatsAnswered =>
    IF RowIds = {}
      THEN last.ret[1].churnRate = Ratio(0, 1)
      ELSE /\ last.ret[1].churnRate.den > 0
           /\ last.ret[1].churnRate.num * Cardinality(RowIds)
                = 100 * Cardinality(CancelledIds) * last.ret[1].churnRate.den

C23_Witness ==
  /\ StatsAnswered
  /\ Cardinality(RowIds) = 3
  /\ Cardinality(CancelledIds) = 1
  /\ last.ret[1].churnRate = Ratio(100, 3)

\* C24: when the store fails a call of apply, cancel, reactivate or
\* computeStats, the call surfaces the error and returns no normal result.
C24_StoreErrorsSurface ==
  (last.fault /\ last.call.op \in {"apply", "cancel", "reactivate", "computeStats"})
    => last.res = "error" /\ IsNull(last.ret)

\* C25: a subscriber who has a row has a row in every later state; no
\* operation (apply, createSubscription, cancel, reactivate, resolveAccess,
\* computeStats) deletes one.
C25_RowsAreNeverDeleted ==
  [][ \A u \in Users : Len(store'[u]) >= Len(store[u]) ]_vars

C25_Witness ==
  /\ last.call.op = "reactivate"
  /\ last.res = "ok"
  /\ store[last.call.user] # <<>>
  /\ store[last.call.user][1].status = "active"
  /\ store[last.call.user][1].current_period_end <= last.call.at

\* C26: resolveAccess and computeStats only read: a step that completes either
\* leaves every row as it was, and resolveAccess for a subscriber without a
\* row creates none.
C26_ReadsLeaveTheStore ==
  [][ (last'.n = last.n + 1 /\ last'.call.op \in {"resolveAccess", "computeStats"})
        => store' = store ]_vars

C26_Witness ==
  /\ last.call.op = "resolveAccess"
  /\ ~last.fault
  /\ last.ret[1].hasAccess
  /\ store[last.call.user] = <<>>
  /\ \E u \in Users : store[u] # <<>>

\* C27: what the cancel-subscription function does to the store and what it
\* responds do not depend on the reason sent with the request.
C27_ReasonHasNoEffect ==
  [][ (last'.n = last.n + 1 /\ last'.call.op = "cancelRequest") =>
        \A reason \in Reasons :
          /\ store' = cancelRequest(store, Some(last'.call.user), reason,
                                    last'.fault, last'.call.at).store
          /\ last'.ret[1].response
               = cancelRequest(store, Some(last'.call.user), reason,
                               last'.fault, last'.call.at).response ]_vars

C27_Witness ==
  /\ last.call.op = "cancelRequest"
  /\ last.call.reason = Some("too expensive")
  /\ last.ret[1].response = Response(200, "success")
  /\ last.ret[1].log = <<"too expensive">>
  /\ store[last.call.user] # <<>>
  /\ store[last.call.user][1].status = "cancelled"
  /\ store[last.call.user][1].updated_at = last.call.at

\* C28: cancel never grants access: when resolveAccess answers hasAccess false
\* just before a cancel of the subscriber, it answers hasAccess false just
\* after it, also for an expired row whose period end is still ahead.
C28_CancelNeverGrantsAccess ==
  [][ Completes("cancel") =>
        (~checkSubscriptionAccess(store[last'.call.user], FALSE, now).hasAccess
           => ~checkSubscriptionAccess(store'[last'.call.user], FALSE, now').hasAccess)
    ]_vars

\* this step belongs to a call for subscriber u: the write of its webhook
\* transaction, the read-back of createSubscription, or a whole call
ActsFor(u) ==
  \/ \E p \in Procs : proc[p].pc # "idle" /\ proc'[p] # proc[p] /\ proc[p].user = u
  \/ last'.n = last.n + 1 /\ last'.call.user = u

\* C29: subscriptions are independent: a step of apply, createSubscription,
\* cancel or reactivate for one subscriber leaves every field of every other
\* subscriber's rows as it was, however the calls of two sessions interleave.
C29_OtherSubscribersUntouched ==
  [][ \A u \in Users : ActsFor(u) => \A v \in Users \ {u} : store'[v] = store[v] ]_vars

\* an apply for one subscriber has run between the SELECT and the write of a
\* call for the other, whose row is still the one that call selected
C29_Witness ==
  /\ proc["s1"].pc = "selected"
  /\ proc["s1"].user = "u1"
  /\ proc["s1"].base # <<>>
  /\ store["u1"] = proc["s1"].base
  /\ last.call.op = "apply"
  /\ last.res = "ok"
  /\ last.call.user = "u2"
  /\ store["u2"] # <<>>
  /\ store["u2"][1].plan_type = "monthly"
  /\ store["u2"][1].status = "active"

\* C30: the last apply wins: after an apply that carries periodStart and
\* periodEnd the row's plan, status, period start and period end are the
\* event's, whatever the row was before; an older event delivered again after
\* a newer one (an active event after a cancel) puts the row back.
C30_LastApplyWins ==
  (LastWrote("apply") /\ ~IsNull(last.call.pstart) /\ ~IsNull(last.call.pend)) =>
    /\ store[last.call.user] # <<>>
    /\ \A i \in DOMAIN store[last.call.user] :
         /\ store[last.call.user][i].plan_type = last.call.plan
         /\ store[last.call.user][i].status = last.call.status
         /\ store[last.call.user][i].current_period_start = last.call.pstart[1]
         /\ store[last.call.user][i].current_period_end = last.call.pend[1]

\* the second call after the first row was written, made after the event's
\* period began, has put the row on the event's plan, status and period
C30_Witness ==
  /\ LastWrote("apply")
  /\ last.n = 2
  /\ last.call.at > T0
  /\ last.call.pstart = Some(T0)
  /\ last.call.pend = Some(T0 + Days(29))
  /\ last.call.status = "active"
  /\ last.call.plan = "monthly"
  /\ store[last.call.user][1].status = "active"
  /\ store[last.call.user][1].plan_type = "monthly"
  /\ store[last.call.user][1].current_period_start = T0
  /\ store[last.call.user][1].current_period_end = T0 + Days(29)
  /\ store[last.call.user][1].updated_at = last.call.at

\* the period end of row r is the one createSubscription computes for its
\* plan and period start
ClientDerivable(r) ==
  r.current_period_end = CreatePeriodEnd(r.plan_type, r.current_period_start)

\* C31: every row whose period end was computed from its own plan and period
\* start, by the database function or by createSubscription, has
\* billing_period_accurate true: the computed durations lie in the band of
\* day counts that is accurate for the plan.
C31_ComputedPeriodsAreAccurate ==
  /\ \A u \in Users : \A i \in DOMAIN store[u] :
        (Derivable(store[u][i]) \/ ClientDerivable(store[u][i]))
          => store[u][i].billing_period_accurate = Some(TRUE)
  /\ \A plan \in Plans :
        /\ PeriodAccurate(plan, DurationDays(now, calculate_subscription_period_end(plan, now)))
        /\ PeriodAccurate(plan, DurationDays(now, CreatePeriodEnd(plan, now)))

\* a semiannual row created on 2023-08-31: createSubscription's end is
\* 2024-03-02, 184 days on, and the row is flagged accurate
C31_Witness ==
  /\ store["u1"] # <<>>
  /\ store["u1"][1].plan_type = "semiannual"
  /\ store["u1"][1].current_period_start = Days(DaysFromCivil(2023, 8, 31))
  /\ store["u1"][1].current_period_end = Days(DaysFromCivil(2024, 3, 2))
  /\ ~Derivable(store["u1"][1])
  /\ WholeDays(store["u1"][1]) = 184
  /\ store["u1"][1].billing_period_accurate = Some(TRUE)

\* C32: the two period calculators agree: for every plan and every start the
\* end createSubscription computes on the client equals the end the database
\* computes for the same plan and start, also for starts on the 29th, 30th
\* and 31st of a month and on the leap day.
C32_CalculatorsAgree ==
  \A plan \in Plans :
     CreatePeriodEnd(plan, now) = calculate_subscription_period_end(plan, now)

\* C33: the two revenue computations agree: for every store the revenue that
\* getSubscriptionStats returns equals the value of the database function
\* get_total_subscription_revenue that getSystemWideStats reports.
C33_RevenuesAgree ==
  StatsAnswered => last.ret[1].revenue = SystemWideRevenue(StoredRows, FALSE)

\* this step is the direct effect of a call for subscriber u that sets the
\* status to status: the write of an apply with that status, the write of a
\* createSubscription, a cancel, or a reactivate
SetsStatus(u, status) ==
  \/ Completes("apply") /\ last'.call.user = u /\ last'.call.status = status
  \/ /\ status = "active"
     /\ \E p \in Procs : /\ proc[p].pc = "selected" /\ proc[p].op = "create"
                         /\ proc[p].user = u /\ proc'[p].pc = "fetch"
  \/ /\ status = "cancelled"
     /\ last'.n = last.n + 1 /\ last'.res = "ok" /\ last'.call.user = u
     /\ last'.call.op \in {"cancel", "cancelRequest"}
  \/ Completes("reactivate") /\ last'.call.user = u /\ status = "active"

ActiveIds == { id \in RowIds : store[id[1]][id[2]].status = "active" }

PaidIds == { id \in ActiveIds : store[id[1]][id[2]].plan_type # "trial" }

\* C34: the passage of time never changes a stored row: a status changes only
\* as the direct effect of apply or createSubscription (to the event's
\* status), cancel (to cancelled) or reactivate (to active); an active row
\* whose period end has passed stays active, getSubscriptionStats counts it
\* in active and, if it is not a trial, in paid, and checkSubscriptionAccess
\* answers hasAccess false for it.
C34_TimeChangesNoRow ==
  [][ /\ now' # now => store' = store
      /\ \A u \in Users : \A i \in DOMAIN store[u] \cap DOMAIN store'[u] :
            store'[u][i].status # store[u][i].status
              => SetsStatus(u, store'[u][i].status)
      /\ Completes("computeStats") =>
            /\ store' = store
            /\ last'.ret[1].active = Cardinality(ActiveIds)
            /\ last'.ret[1].paid = Cardinality(PaidIds)
      /\ ( /\ Completes("resolveAccess")
           /\ store[last'.call.user] # <<>>
           /\ store[last'.call.user][1].status = "active"
           /\ store[last'.call.user][1].current_period_end <= now )
         => ~last'.ret[1].hasAccess
    ]_vars

\* the only row is a monthly one, still active when its period has ended;
\* the statistics count it as active and paid, and an access check at that
\* time denies access
C34_Witness ==
  /\ StatsAnswered
  /\ RowIds = {<<"u1", 1>>}
  /\ store["u1"][1].status = "active"
  /\ store["u1"][1].plan_type = "monthly"
  /\ store["u1"][1].updated_at = T0
  /\ store["u1"][1].current_period_end <= last.call.at
  /\ last.ret[1].active = 1
  /\ last.ret[1].paid = 1
  /\ ~checkSubscriptionAccess(store["u1"], FALSE, last.call.at).hasAccess

\* C35: the implicit trial never expires: while no row is stored for a
\* subscriber, checkSubscriptionAccess answers hasAccess true and
\* daysRemaining 30 at every time, however long after an earlier check.
C35_ImplicitTrialNeverEnds ==
  /\ \A u \in Users :
        store[u] = <<>> =>
          \A k \in 0..MaxClock, queryFails \in BOOLEAN :
             /\ checkSubscriptionAccess(store[u], queryFails, now + k * ClockStep).hasAccess
             /\ checkSubscriptionAccess(store[u], queryFails, now + k * ClockStep).daysRemaining = 30
  /\ (last.call.op = "resolveAccess" /\ store[last.call.user] = <<>>) =>
        /\ last.ret[1].hasAccess
        /\ last.ret[1].daysRemaining = 30

\* the second call, at the latest time, is a check for a subscriber without
\* a row: it still answers with access and 30 days
C35_Witness ==
  /\ last.call.op = "resolveAccess"
  /\ last.n = 2
  /\ last.call.at = T0 + MaxClock * ClockStep
  /\ store[last.call.user] = <<>>
  /\ last.ret[1].hasAccess
  /\ last.ret[1].daysRemaining = 30

\* C36: in every answer of checkSubscriptionAccess for a stored subscription,
\* hasAccess true comes with daysRemaining of at least 1, and for a row in
\* status active, past_due or cancelled hasAccess false comes with
\* daysRemaining 0; so it is in the answers given and in the answers for a
\* row of each status at every tick from a day before its period end to a
\* day after it.
DaysMatchAccess(answer) ==
  /\ answer.hasAccess => answer.daysRemaining >= 1
  /\ ( /\ ~answer.hasAccess
       /\ answer.subscription[1].status \in {"active", "past_due", "cancelled"} )
     => answer.daysRemaining = 0

\* a row of a status whose period ends one day from now
EndsTomorrow(status) == [RowOfPeriod("monthly", 1, 0) EXCEPT !.status = status]

C36_AccessAndDaysAgree ==
  /\ ResolvedRow => DaysMatchAccess(last.ret[1])
  /\ \A status \in Statuses, k \in 0..(2 * TicksPerDay) :
        DaysMatchAccess(checkSubscriptionAccess(<<EndsTomorrow(status)>>, FALSE, now + k))

\* a past_due subscription was resolved at the instant its period ended: no
\* access and no day remaining
C36_Witness ==
  /\ ResolvedRow
  /\ last.ret[1].subscription[1].status = "past_due"
  /\ last.ret[1].subscription[1].current_period_end = last.call.at
  /\ ~last.ret[1].hasAccess
  /\ last.ret[1].daysRemaining = 0

\* C37: every result of getSubscriptionStats has paid <= active <= total,
\* trial <= total, paid + trial <= total, a churn rate from 0 to 100 and a
\* revenue that is not negative.
C37_StatsAreConsistent ==
  last.call.op = "computeStats" =>
    /\ last.ret[1].paid <= last.ret[1].active
    /\ last.ret[1].active <= last.ret[1].total
    /\ last.ret[1].trial <= last.ret[1].total
    /\ last.ret[1].paid + last.ret[1].trial <= last.ret[1].total
    /\ last.ret[1].churnRate.den > 0
    /\ last.ret[1].churnRate.num >= 0
    /\ last.ret[1].churnRate.num <= 100 * last.ret[1].churnRate.den
    /\ last.ret[1].revenue.cents >= 0
    /\ last.ret[1].revenue.cents = 0 => last.ret[1].revenue.err = 0

\* three rows: a paid active one, a cancelled one and an active trial
C37_Witness ==
  /\ StatsAnswered
  /\ last.ret[1].total = 3
  /\ last.ret[1].active = 2
  /\ last.ret[1].paid = 1
  /\ last.ret[1].trial = 1
  /\ last.ret[1].churnRate.num > 0
  /\ last.ret[1].revenue.cents > 0

\* row r carries what the write that left row w wrote: its plan, status
\* active and its period
AsWritten(r, w) ==
  /\ r.plan_type = w.plan_type
  /\ r.status = "active"
  /\ r.current_period_start = w.current_period_start
  /\ r.current_period_end = w.current_period_end

\* C38: when createSubscription returns normally, the row it returns is the
\* stored row of the user with the call's plan, status active and the period
\* the call wrote, also when an apply, a cancel or a reactivate for the user
\* ran between its write and its read-back; when it throws, it has not
\* created or modified the user's row.
C38_CreateReturnsWhatItWrote ==
  [][ \A p \in Procs :
        (proc[p].pc = "fetch" /\ proc'[p].pc = "idle") =>
          IF last'.res = "ok"
            THEN /\ \E i \in DOMAIN store'[proc[p].user] :
                       last'.ret[1] = store'[proc[p].user][i]
                 /\ AsWritten(last'.ret[1], proc[p].base[1])
            ELSE \A i \in DOMAIN store'[proc[p].user] :
                    store'[proc[p].user][i] # proc[p].base[1]
    ]_vars


============================================================================
